---- MODULE Spec2Model ----
(***************************************************************************)
(* Model of tools/upload_postimages_album.py: main's single-upload attempt  *)
(* and batch fallback, upload_files, find_file_input, click_upload and the  *)
(* polling loop of collect_result_links.  The web page is the environment:  *)
(* every DOM query draws its outcome (no element, an element, an exception) *)
(* nondeterministically.                                                     *)
(***************************************************************************)
EXTENDS Integers, Sequences, FiniteSets, TLC

\* ---------------------------------------------------------------- bounds
MaxFiles == 3
MaxBatch == 3
MaxAnchors == 1

\* ------------------------------------------------------ program constants
FILE_INPUT_SELECTORS ==
    << "input[type=file]", "input[name=upload[]]", "input#uploadFiles", "input[name=files[]]" >>
ALBUM_INPUT_SELECTORS ==
    << "input[name=album_title]", "input#album-title", "input[placeholder*=Album]", "input[placeholder*=album]" >>
UPLOAD_BUTTON_SELECTORS ==
    << "button:has-text(Upload)", "button:has-text(Start upload)", "button[type=submit]" >>
step == 2000
TimeoutMulti == 120000
TimeoutSeq == 60000

\* URLs the result page can show: an image link and an album link, both on
\* a postimages.org / postimg.cc host.
Urls == {"img", "alb"}
\* What reading one anchor's href can give: a URL that passes the host test
\* of line 74, None/empty ("none"), a string that fails the host test
\* ("other"), or an exception ("raise").
HrefOutcomes == Urls \cup {"none", "other", "raise"}
\* What one query_selector can give.
QueryOutcomes == {"none", "elem", "raise"}
\* What one probe-and-act (query, then fill or click) can give: no element,
\* the query raises, the element is found but the act raises, or both work.
ProbeOutcomes == {"none", "raise", "fail", "ok"}

VARIABLES
    files,              \* main: sorted list of discovered files
    batch_size,         \* args.batch_size
    album,              \* args.album is given
    open,               \* args.open
    pc,                 \* main's position
    i,                  \* main: loop variable of the fallback loop
    all_links,          \* main: all_links
    opened,             \* URLs handed to open_in_host_browser, in order
    calls,              \* batches handed to upload_files, in order
    upc,                \* upload_files' position
    avif_files,         \* upload_files: the batch
    album_title,        \* upload_files: album_title is given
    supports_multiple,  \* upload_files: supports_multiple
    idx,                \* upload_files: enumerate index of the sequential loop
    results,            \* upload_files: results
    links,              \* upload_files: return value of collect_result_links
    deduped,            \* return value of upload_files (main's links)
    fi,                 \* the find_file_input call just made: outcomes, result, queries
    file_input,         \* upload_files: file_input is an element (not None)
    inputs,             \* arguments of set_input_files in this attempt
    titled,             \* an album title was filled in this attempt
    clicks,             \* click_upload calls in this attempt
    closed,             \* browser.close() was awaited in this attempt
    errPrinted,         \* the "file input not found" error was printed
    elapsed,            \* collect_result_links: elapsed
    timeout_ms,         \* collect_result_links: timeout_ms
    found,              \* collect_result_links: found
    polls,              \* iterations of the polling loop in this call
    exit                \* how the last collect_result_links call returned

vars == << files, batch_size, album, open, pc, i, all_links, opened, calls,
           upc, avif_files, album_title, supports_multiple, idx, results, links,
           deduped, fi, file_input, inputs, titled, clicks, closed, errPrinted,
           elapsed, timeout_ms, found, polls, exit >>

mainVars == << files, batch_size, album, open >>

\* ------------------------------------------------------------- helpers
Min(a, b) == IF a < b THEN a ELSE b
Max(a, b) == IF a > b THEN a ELSE b
Range(s) == {s[j] : j \in 1..Len(s)}

\* Python's s[lo:hi] for a list s (0-based, negative indices count from the end).
PyIndex(s, x) == IF x < 0 THEN Max(Len(s) + x, 0) ELSE Min(x, Len(s))
PySlice(s, lo, hi) == SubSeq(s, PyIndex(s, lo) + 1, PyIndex(s, hi))

\* list(found): the elements of a set in an order the hash seed decides.
ListOf(S) == {s \in [1..Cardinality(S) -> S] : \A a, b \in 1..Cardinality(S) : a # b => s[a] # s[b]}

NoProbe == [o |-> << >>, sel |-> 0, queried |-> << >>]

\* ------------------------------------------------- find_file_input (38-46)
\* o[j] is what page.query_selector gives for FILE_INPUT_SELECTORS[j].  The
\* result names the matching selector (0 for (None, None)) and the selectors
\* that were queried, in order.
RECURSIVE FindLoop(_, _, _)
FindLoop(o, j, q) ==
    IF j > Len(FILE_INPUT_SELECTORS) THEN [o |-> o, sel |-> 0, queried |-> q]
    ELSE IF o[j] = "elem" THEN [o |-> o, sel |-> j, queried |-> Append(q, j)]
    ELSE FindLoop(o, j + 1, Append(q, j))

RECURSIVE FindLoopNoCatch(_, _, _)
FindLoopNoCatch(o, j, q) ==
    IF j > Len(FILE_INPUT_SELECTORS) THEN [o |-> o, sel |-> 0, queried |-> q]
    ELSE IF o[j] = "elem" THEN [o |-> o, sel |-> j, queried |-> Append(q, j)]
    ELSE IF o[j] = "raise" THEN [o |-> o, sel |-> 0, queried |-> Append(q, j)]
    ELSE FindLoopNoCatch(o, j + 1, Append(q, j))

find_file_input_nocatch(o) == FindLoopNoCatch(o, 1, << >>)

find_file_input(o) == FindLoop(o, 1, << >>)

\* `if not file_input` (102)
NeverAborts(sel) == FALSE

NoFileInput(sel) == sel = 0

\* ---------------------------------------- album title probing (118-126)
\* ao[j] is what probing ALBUM_INPUT_SELECTORS[j] and filling it gives; the
\* result is whether a title was filled.
RECURSIVE AlbumLoop(_, _)
AlbumLoop(ao, j) ==
    IF j > Len(ALBUM_INPUT_SELECTORS) THEN FALSE
    ELSE IF ao[j] = "ok" THEN TRUE
    ELSE AlbumLoop(ao, j + 1)

fill_album_title(ao) == AlbumLoop(ao, 1)

\* ------------------------------------------------- click_upload (48-61)
\* co[j] is what probing UPLOAD_BUTTON_SELECTORS[j] and clicking it gives,
\* enter whether keyboard.press("Enter") works; the result is the return value.
RECURSIVE ClickLoop(_, _, _)
ClickLoop(co, enter, j) ==
    IF j > Len(UPLOAD_BUTTON_SELECTORS) THEN enter
    ELSE IF co[j] = "ok" THEN TRUE
    ELSE ClickLoop(co, enter, j + 1)

click_upload(co, enter) == ClickLoop(co, enter, 1)

\* ------------------------------------------ collect_result_links (63-93)
\* The for loop over anchors (71-77): q is the list of href outcomes.
RECURSIVE AddAnchors(_, _)
AddAnchors(fnd, q) ==
    IF q = << >> THEN fnd
    ELSE AddAnchors(IF Head(q) \in Urls THEN fnd \cup {Head(q)} ELSE fnd, Tail(q))

\* What the album query of one poll can give: no element ("none"), the query
\* raises ("raise"), get_attribute raises ("hrefraise"), the element has no
\* href ("nohref"), or its href (an album URL).
AlbumHrefs == {"alb"}
AlbumOutcomes == {"none", "raise", "hrefraise", "nohref"} \cup AlbumHrefs

\* while elapsed < timeout_ms (68)
LoopRuns(e, t) == e < t

\* elapsed += step (92)
ElapsedStuck(e) == e

ElapsedNext(e) == e + step

\* Lines 79-92 of one poll, after the anchors were read: the set found
\* after the album lookup, and whether the call returns (by the album
\* branch, by the found branch), goes on polling, or raises.
PollDecideNoEarlyReturn(fnd, a) ==
    IF a \in {"raise", "hrefraise"} THEN [kind |-> "raise", found |-> fnd]
    ELSE IF a \in AlbumHrefs THEN [kind |-> "album", found |-> fnd \cup {a}]
    ELSE [kind |-> "empty", found |-> fnd]

PollDecide(fnd, a) ==
    IF a \in {"raise", "hrefraise"} THEN [kind |-> "raise", found |-> fnd]
    ELSE IF a \in AlbumHrefs THEN [kind |-> "album", found |-> fnd \cup {a}]
    ELSE IF fnd # {} THEN [kind |-> "found", found |-> fnd]
    ELSE [kind |-> "empty", found |-> fnd]

\* --------------------------------------------- dedupe loop (156-160)
RECURSIVE DedupeLoop(_, _, _)
DedupeLoop(r, j, d) ==
    IF j > Len(r) THEN d
    ELSE DedupeLoop(r, j + 1, IF r[j] \in Range(d) THEN d ELSE Append(d, r[j]))

NoDedupe(r) == r

Dedupe(r) == DedupeLoop(r, 1, << >>)

\* ------------------------------------------------------ main (186-218)
\* files[:args.batch_size] (193)
FirstBatch(fs, bs) == PySlice(fs, 0, bs)

\* files[i : i + args.batch_size] (207)
FallbackBatchShort(fs, j, bs) == PySlice(fs, j, j + bs - 1)

FallbackBatch(fs, j, bs) == PySlice(fs, j, j + bs)

\* whether j is in range(0, n, bs), bs # 0 (206)
InRange(j, n, bs) == IF bs > 0 THEN j < n ELSE j > n

\* ---------------------------------------------------------------- state
FileLists == {[j \in 1..n |-> j] : n \in 0..MaxFiles}
BatchSizes == (-1)..MaxBatch
AnchorLists == UNION {[1..n -> HrefOutcomes] : n \in 0..MaxAnchors}

\* The frame of upload_files before a call and after main took its result.
NoFrame ==
    /\ upc' = "idle"
    /\ avif_files' = << >>
    /\ album_title' = FALSE
    /\ supports_multiple' = FALSE
    /\ idx' = 0
    /\ results' = << >>
    /\ links' = << >>
    /\ deduped' = << >>
    /\ fi' = NoProbe
    /\ file_input' = FALSE
    /\ inputs' = << >>
    /\ titled' = FALSE
    /\ clicks' = 0
    /\ closed' = FALSE
    /\ errPrinted' = FALSE
    /\ elapsed' = 0
    /\ timeout_ms' = 0
    /\ found' = {}
    /\ polls' = 0
    /\ exit' = "none"

Init ==
    /\ files \in FileLists
    /\ batch_size \in BatchSizes
    /\ album \in BOOLEAN
    /\ open \in BOOLEAN
    /\ pc = "start"
    /\ i = 0
    /\ all_links = << >>
    /\ opened = << >>
    /\ calls = << >>
    /\ upc = "idle"
    /\ avif_files = << >>
    /\ album_title = FALSE
    /\ supports_multiple = FALSE
    /\ idx = 0
    /\ results = << >>
    /\ links = << >>
    /\ deduped = << >>
    /\ fi = NoProbe
    /\ file_input = FALSE
    /\ inputs = << >>
    /\ titled = FALSE
    /\ clicks = 0
    /\ closed = FALSE
    /\ errPrinted = FALSE
    /\ elapsed = 0
    /\ timeout_ms = 0
    /\ found = {}
    /\ polls = 0
    /\ exit = "none"

\* asyncio.run(upload_files(batch, album_title=title, ...)) up to the first
\* lookup: the browser is launched and the upload page loaded (96-99).
CallUpload(batch, title) ==
    /\ calls' = Append(calls, batch)
    /\ upc' = "find"
    /\ avif_files' = batch
    /\ album_title' = title
    /\ supports_multiple' = FALSE
    /\ idx' = 0
    /\ results' = << >>
    /\ links' = << >>
    /\ deduped' = << >>
    /\ fi' = NoProbe
    /\ file_input' = FALSE
    /\ inputs' = << >>
    /\ titled' = FALSE
    /\ clicks' = 0
    /\ closed' = FALSE
    /\ errPrinted' = FALSE
    /\ elapsed' = 0
    /\ timeout_ms' = 0
    /\ found' = {}
    /\ polls' = 0
    /\ exit' = "none"

\* An exception leaves upload_files and, through asyncio.run, main.
Propagate ==
    /\ upc' = "raised"
    /\ pc' = "error"

\* browser.close(); dedupe; return deduped (154-160)
ReturnDeduped(r) ==
    /\ closed' = TRUE
    /\ deduped' = Dedupe(r)
    /\ upc' = "returned"

\* collect_result_links is entered (65-67).
EnterCollect(t) ==
    /\ timeout_ms' = t
    /\ elapsed' = 0
    /\ found' = {}
    /\ polls' = 0
    /\ exit' = "none"
    /\ links' = << >>
    /\ upc' = "poll"

\* ------------------------------------------------------- upload_files
\* find_file_input and the abort of lines 101-105.
UpFind ==
    /\ upc = "find"
    /\ \E o \in [1..Len(FILE_INPUT_SELECTORS) -> QueryOutcomes] :
         LET r == find_file_input(o) IN
         /\ fi' = r
         /\ file_input' = (r.sel # 0)
         /\ IF NoFileInput(r.sel)
              THEN /\ errPrinted' = TRUE
                   /\ closed' = TRUE
                   /\ deduped' = << >>
                   /\ upc' = "returned"
              ELSE /\ upc' = "evaluate"
                   /\ UNCHANGED << errPrinted, closed, deduped >>
    /\ UNCHANGED << mainVars, pc, i, all_links, opened, calls, avif_files, album_title,
                    supports_multiple, idx, results, links, inputs, titled, clicks,
                    elapsed, timeout_ms, found, polls, exit >>

\* file_input.evaluate("el => !!el.multiple") (108): m is its outcome.  With
\* file_input None the call raises AttributeError.
UpEvaluate ==
    /\ upc = "evaluate"
    /\ fi' = NoProbe
    /\ \E m \in {"true", "false", "raise"} :
         IF m = "raise" \/ ~file_input
           THEN /\ Propagate
                /\ UNCHANGED << supports_multiple, idx, closed, deduped >>
           ELSE /\ supports_multiple' = (m = "true")
                /\ IF m = "true"
                     THEN /\ upc' = "submit"
                          /\ UNCHANGED << idx, closed, deduped, pc >>
                     ELSE IF avif_files = << >>
                       THEN /\ ReturnDeduped(results)
                            /\ UNCHANGED << idx, pc >>
                       ELSE /\ upc' = "submit"
                            /\ idx' = 1
                            /\ UNCHANGED << closed, deduped, pc >>
    /\ UNCHANGED << mainVars, i, all_links, opened, calls, avif_files, album_title,
                    results, links, file_input, inputs, titled, clicks, errPrinted,
                    elapsed, timeout_ms, found, polls, exit >>

\* set_input_files and the album title probing: lines 116-126 on the
\* multi-file path, 137-146 for file idx on the sequential path.
UpSubmit ==
    /\ upc = "submit"
    /\ inputs' = Append(inputs, IF supports_multiple THEN avif_files ELSE << avif_files[idx] >>)
    /\ IF album_title /\ (supports_multiple \/ idx = 1)
         THEN \E ao \in [1..Len(ALBUM_INPUT_SELECTORS) -> ProbeOutcomes] :
                titled' = (titled \/ fill_album_title(ao))
         ELSE titled' = titled
    /\ upc' = "click"
    /\ UNCHANGED << mainVars, pc, i, all_links, opened, calls, avif_files, album_title,
                    supports_multiple, idx, results, links, deduped, fi, file_input,
                    clicks, closed, errPrinted, elapsed, timeout_ms, found, polls, exit >>

\* click_upload and the entry of collect_result_links (127-131, 147-148).
\* The return value of click_upload only decides a warning print.
UpClick ==
    /\ upc = "click"
    /\ \E co \in [1..Len(UPLOAD_BUTTON_SELECTORS) -> ProbeOutcomes], enter \in BOOLEAN :
         click_upload(co, enter) \in BOOLEAN
    /\ clicks' = clicks + 1
    /\ EnterCollect(IF supports_multiple THEN TimeoutMulti ELSE TimeoutSeq)
    /\ UNCHANGED << mainVars, pc, i, all_links, opened, calls, avif_files, album_title,
                    supports_multiple, idx, results, deduped, fi, file_input, inputs,
                    titled, closed, errPrinted >>

\* ----------------------------------------------- collect_result_links
\* One poll, first half (68-77): query_selector_all raises, or the anchors
\* are queried and their hrefs read.
CollectAnchors ==
    /\ upc = "poll"
    /\ LoopRuns(elapsed, timeout_ms)
    /\ polls' = polls + 1
    /\ \/ /\ Propagate
          /\ UNCHANGED found
       \/ \E q \in AnchorLists :
            /\ found' = AddAnchors(found, q)
            /\ upc' = "album"
            /\ UNCHANGED pc
    /\ UNCHANGED << mainVars, i, all_links, opened, calls, avif_files, album_title,
                    supports_multiple, idx, results, links, deduped, fi, file_input, inputs,
                    titled, clicks, closed, errPrinted, elapsed, timeout_ms, exit >>

\* One poll, second half (79-92): the album lookup, then return or wait.
\* A return ends the frame of collect_result_links: its locals are gone.
CollectAlbum ==
    /\ upc = "album"
    /\ \E a \in AlbumOutcomes :
         LET d == PollDecide(found, a) IN
         CASE d.kind = "raise" ->
                /\ Propagate
                /\ found' = d.found
                /\ UNCHANGED << links, elapsed, exit, timeout_ms, polls >>
           [] d.kind \in {"album", "found"} ->
                /\ links' \in ListOf(d.found)
                /\ exit' = d.kind
                /\ upc' = "collected"
                /\ found' = {}
                /\ elapsed' = 0
                /\ timeout_ms' = 0
                /\ polls' = 0
                /\ UNCHANGED pc
           [] OTHER ->
                /\ elapsed' = ElapsedNext(elapsed)
                /\ found' = d.found
                /\ upc' = "poll"
                /\ UNCHANGED << pc, links, exit, timeout_ms, polls >>
    /\ UNCHANGED << mainVars, i, all_links, opened, calls, avif_files, album_title,
                    supports_multiple, idx, results, deduped, fi, file_input, inputs,
                    titled, clicks, closed, errPrinted >>

\* The loop condition fails (68, 93).
CollectTimeout ==
    /\ upc = "poll"
    /\ ~LoopRuns(elapsed, timeout_ms)
    /\ links' \in ListOf(found)
    /\ exit' = "timeout"
    /\ upc' = "collected"
    /\ found' = {}
    /\ elapsed' = 0
    /\ timeout_ms' = 0
    /\ polls' = 0
    /\ UNCHANGED << mainVars, pc, i, all_links, opened, calls, avif_files, album_title,
                    supports_multiple, idx, results, deduped, fi, file_input, inputs,
                    titled, clicks, closed, errPrinted >>

\* upload_files takes the links: 132 and 154-160 on the multi-file path,
\* 149-152 and the next iteration or 154-160 on the sequential path.
UpCollected ==
    /\ upc = "collected"
    /\ LET r == IF supports_multiple \/ links # << >> THEN results \o links ELSE results IN
         /\ results' = r
         /\ IF supports_multiple \/ idx >= Len(avif_files)
              THEN /\ ReturnDeduped(r)
                   /\ UNCHANGED idx
              ELSE /\ idx' = idx + 1
                   /\ upc' = "submit"
                   /\ UNCHANGED << closed, deduped >>
    /\ UNCHANGED << mainVars, pc, i, all_links, opened, calls, avif_files, album_title,
                    supports_multiple, links, fi, file_input, inputs, titled, clicks,
                    errPrinted, elapsed, timeout_ms, found, polls, exit >>

\* --------------------------------------------------------------- main
\* Lines 186-194: no files, or the first upload attempt.
MainStart ==
    /\ pc = "start"
    /\ IF files = << >>
         THEN /\ pc' = "done_nofiles"
              /\ UNCHANGED << calls, upc, avif_files, album_title, supports_multiple, idx,
                              results, links, deduped, fi, file_input, inputs, titled, clicks,
                              closed, errPrinted, elapsed, timeout_ms, found, polls, exit >>
         ELSE /\ pc' = "first"
              /\ CallUpload(FirstBatch(files, batch_size), album)
    /\ UNCHANGED << mainVars, i, all_links, opened >>

\* Lines 195-205: the first attempt returned.
MainFirstReturn ==
    /\ pc = "first"
    /\ upc = "returned"
    /\ IF deduped # << >>
         THEN /\ opened' = IF open THEN Append(opened, deduped[1]) ELSE opened
              /\ pc' = "done_single"
         ELSE /\ pc' = "loop"
              /\ UNCHANGED opened
    /\ i' = 0
    /\ all_links' = << >>
    /\ NoFrame
    /\ UNCHANGED << mainVars, calls >>

\* Lines 206-209 and 213-218: the head of the fallback loop.
MainLoop ==
    /\ pc = "loop"
    /\ IF batch_size = 0
         THEN /\ pc' = "error"
              /\ UNCHANGED << calls, upc, avif_files, album_title, supports_multiple, idx,
                              results, links, deduped, fi, file_input, inputs, titled, clicks,
                              closed, errPrinted, elapsed, timeout_ms, found, polls, exit >>
         ELSE IF InRange(i, Len(files), batch_size)
           THEN /\ pc' = "batch"
                /\ CallUpload(FallbackBatch(files, i, batch_size), album /\ i = 0)
           ELSE /\ pc' = "done_fallback"
                /\ UNCHANGED << calls, upc, avif_files, album_title, supports_multiple, idx,
                                results, links, deduped, fi, file_input, inputs, titled, clicks,
                                closed, errPrinted, elapsed, timeout_ms, found, polls, exit >>
    /\ UNCHANGED << mainVars, i, all_links, opened >>

\* Lines 210-212: a fallback batch returned.
MainBatchReturn ==
    /\ pc = "batch"
    /\ upc = "returned"
    /\ all_links' = all_links \o deduped
    /\ opened' = IF open /\ deduped # << >> THEN Append(opened, deduped[1]) ELSE opened
    /\ i' = i + batch_size
    /\ pc' = "loop"
    /\ NoFrame
    /\ UNCHANGED << mainVars, calls >>

Next ==
    \/ MainStart
    \/ MainFirstReturn
    \/ MainLoop
    \/ MainBatchReturn
    \/ UpFind
    \/ UpEvaluate
    \/ UpSubmit
    \/ UpClick
    \/ CollectAnchors
    \/ CollectAlbum
    \/ CollectTimeout
    \/ UpCollected

Spec == Init /\ [][Next]_vars

\* One call of collect_result_links on its own: the states in which the
\* first attempt of a run enters the polling loop (after the file input was
\* found, the files set and click_upload called), and the steps of the loop.
\* The single asyncio task always runs its next step, hence the fairness.
InitCollect ==
    /\ files \in FileLists \ {<< >>}
    /\ batch_size \in 1..MaxBatch
    /\ album \in BOOLEAN
    /\ open \in BOOLEAN
    /\ pc = "first"
    /\ i = 0
    /\ all_links = << >>
    /\ opened = << >>
    /\ calls = << FirstBatch(files, batch_size) >>
    /\ upc = "poll"
    /\ avif_files = FirstBatch(files, batch_size)
    /\ album_title = album
    /\ supports_multiple \in BOOLEAN
    /\ idx = IF supports_multiple THEN 0 ELSE 1
    /\ results = << >>
    /\ links = << >>
    /\ deduped = << >>
    /\ fi = NoProbe
    /\ file_input = TRUE
    /\ inputs = << IF supports_multiple THEN avif_files ELSE << avif_files[1] >> >>
    /\ titled \in (IF album THEN BOOLEAN ELSE {FALSE})
    /\ clicks = 1
    /\ closed = FALSE
    /\ errPrinted = FALSE
    /\ elapsed = 0
    /\ timeout_ms = IF supports_multiple THEN TimeoutMulti ELSE TimeoutSeq
    /\ found = {}
    /\ polls = 0
    /\ exit = "none"

NextCollect ==
    \/ CollectAnchors
    \/ CollectAlbum
    \/ CollectTimeout

CollectSpec == InitCollect /\ [][NextCollect]_vars /\ WF_vars(NextCollect)

\* ------------------------------------------------------------- claims
NoDup(s) == \A a, b \in 1..Len(s) : a # b => s[a] # s[b]
FirstIndex(s, x) == CHOOSE j \in 1..Len(s) : s[j] = x /\ \A k \in 1..(j - 1) : s[k] # x
RECURSIVE Flatten(_)
Flatten(ss) == IF ss = << >> THEN << >> ELSE Head(ss) \o Flatten(Tail(ss))
CeilDiv(n, d) == (n + d - 1) \div d
Polling == upc \in {"poll", "album"}

\* C1: the list upload_files returns holds each distinct URL of the gathered
\* results exactly once, in the order of first occurrence.
C1_DedupFirstSeen ==
    upc = "returned" =>
        /\ Range(deduped) = Range(results)
        /\ NoDup(deduped)
        /\ \A a, b \in 1..Len(deduped) :
             a < b => FirstIndex(results, deduped[a]) < FirstIndex(results, deduped[b])

\* C1 witness: a return whose gathered results repeat a URL and hold two distinct ones.
C1_Witness ==
    /\ upc = "returned"
    /\ Len(deduped) = 2
    /\ Len(results) > 2
    /\ results[1] = results[3]

\* C2: with batch_size >= 1 the fallback loop hands upload_files non-empty
\* batches of at most batch_size files that concatenate to a prefix of files,
\* and when the loop ends there were ceil(N/batch_size) of them, concatenating
\* to files.
C2_BatchPartition ==
    (batch_size >= 1 /\ pc \in {"loop", "batch", "done_fallback"}) =>
        LET bs == Tail(calls) IN
        /\ \A b \in 1..Len(bs) : Len(bs[b]) >= 1 /\ Len(bs[b]) <= batch_size
        /\ Len(Flatten(bs)) <= Len(files)
        /\ Flatten(bs) = SubSeq(files, 1, Len(Flatten(bs)))
        /\ pc = "done_fallback" =>
             /\ Len(bs) = CeilDiv(Len(files), batch_size)
             /\ Flatten(bs) = files

\* C2 witness: the fallback ran to its end over 3 files in batches of 2.
C2_Witness ==
    /\ pc = "done_fallback"
    /\ Len(files) = 3
    /\ batch_size = 2
    /\ Len(calls) = 3

\* C3 (as claimed): a run that ends after the first attempt with links has
\* submitted every discovered file.
C3_FirstAttemptSubmitsAll ==
    (pc = "done_single" /\ batch_size >= 1) => calls[1] = files

\* C4: the polling loop is only ever re-entered with found empty, and a
\* return by timeout happens with found empty, elapsed at timeout_ms, and
\* yields the empty list without raising.
C4_TimeoutYieldsEmpty ==
    /\ [](upc = "poll" => found = {})
    /\ []((upc = "collected" /\ exit = "timeout") => (links = << >> /\ pc # "error"))
    /\ [][(upc = "poll" /\ upc' = "collected") =>
            (found = {} /\ elapsed >= timeout_ms /\ exit' = "timeout" /\ links' = << >>)]_vars

\* C4 witness: a call returned by timeout.
C4_Witness ==
    /\ upc = "collected"
    /\ exit = "timeout"
    /\ links = << >>

\* C5 (as claimed): no lookup failure propagates out of upload_files.
C5_NoLookupFailurePropagates == upc # "raised"

\* C6: an attempt that finds no file input returns the empty list with the
\* error printed and the browser closed, having set no input files, filled
\* no title, clicked nothing and polled nothing; main takes it as "no links":
\* nothing is added to all_links, nothing opened, and the fallback loop goes on.
C6_MissingInputAborts ==
    /\ []((upc \notin {"idle", "find"} /\ ~file_input) =>
            /\ upc = "returned"
            /\ deduped = << >>
            /\ errPrinted
            /\ closed
            /\ inputs = << >>
            /\ ~titled
            /\ clicks = 0
            /\ polls = 0
            /\ exit = "none")
    /\ [][(upc = "returned" /\ ~file_input /\ upc' # upc) =>
            (pc' = "loop" /\ all_links' = all_links /\ opened' = opened)]_vars

\* C6 witness: a fallback batch aborted for want of a file input.
C6_Witness ==
    /\ upc = "returned"
    /\ ~file_input
    /\ errPrinted
    /\ pc = "batch"

\* C7: find_file_input queries the selectors in list order up to the first
\* that yields an element and returns it; raising and empty queries are
\* skipped; the result is (None, None) exactly when no query yields an element.
C7_FirstMatchWins ==
    fi.queried # << >> =>
        /\ fi.queried = [j \in 1..Len(fi.queried) |-> j]
        /\ fi.sel # 0 =>
             /\ fi.o[fi.sel] = "elem"
             /\ \A j \in 1..(fi.sel - 1) : fi.o[j] # "elem"
             /\ Len(fi.queried) = fi.sel
        /\ fi.sel = 0 <=> \A j \in 1..Len(FILE_INPUT_SELECTORS) : fi.o[j] # "elem"
        /\ fi.sel = 0 => Len(fi.queried) = Len(FILE_INPUT_SELECTORS)

\* C7 witness: the third selector matches after a raising and an empty query,
\* and the fourth, which would match too, is not queried.
C7_Witness ==
    /\ fi.queried = << 1, 2, 3 >>
    /\ fi.sel = 3
    /\ fi.o[1] = "raise"
    /\ fi.o[2] = "none"
    /\ fi.o[4] = "elem"

\* C8 (as claimed): a return by the album branch has the album link first.
C8_AlbumLinkFirst ==
    (upc = "collected" /\ exit = "album") => links[1] \in AlbumHrefs

C10_AllLinksDeduplicated ==
    pc = "done_fallback" => NoDup(all_links)

====
